---------------------------- MODULE Spec2Model ----------------------------
(***************************************************************************)
(* Model of wasm2env (src/src/lib.rs): a static scan of a WebAssembly     *)
(* module for environment-variable names.  The wasmparser decoder is the  *)
(* environment: a module is the sequence of payloads the decoder yields,  *)
(* a function body is the sequence of operators its reader yields, and a  *)
(* decode error is a payload, entry or operator the decoder fails on.     *)
(* Strings are sequences of bytes (0..255).                               *)
(***************************************************************************)
EXTENDS Integers, Sequences, FiniteSets, TLC

VARIABLES
    module,         \* the input: the payloads parse_all yields for wasm_bytes
    phase,          \* where detect_env_vars / scan_wasm_bytes stands
    pi,             \* index of the payload the current pass is at
    data_segments,  \* Vec<DataSegment>
    global_values,  \* Vec<i32>
    memory_map,     \* HashMap<u32, u8>
    env_vars,       \* HashSet<String>
    frame,          \* StackFrame of the function body being analysed
    ip,             \* operators of the current body read so far
    result,         \* what scan_wasm_bytes returns (or the Vec being built)
    workers,        \* per function body, its own frame and reader position
                    \* (only when the bodies are analysed in any order)
    cls_input,      \* classifier harness: the string handed to is_env_var
    cls_verdict     \* classifier harness: "none", "accept" or "reject"

vars == <<module, phase, pi, data_segments, global_values, memory_map,
          env_vars, frame, ip, result, workers, cls_input, cls_verdict>>

-----------------------------------------------------------------------------
(* Integer widths.  TLC's integers are the 32-bit two's complement       *)
(* integers, which are exactly the i32 values.  A u32 is carried as the   *)
(* i32 with the same bits (what `as u32` and `as i32` keep), with the     *)
(* unsigned sum and its overflow defined on that encoding.                *)

MaxI32 == 2147483647
MinI32 == -MaxI32 - 1

wrapping_add_Saturating(x, y) ==
    IF x >= 0 /\ y >= 0 /\ x > MaxI32 - y THEN MaxI32
    ELSE IF x < 0 /\ y < 0 /\ x < MinI32 - y THEN MinI32
    ELSE x + y

\* i32::wrapping_add
wrapping_add(x, y) ==
    IF x >= 0 /\ y >= 0 /\ x > MaxI32 - y THEN (x + MinI32) + (y + MinI32)
    ELSE IF x < 0 /\ y < 0 /\ x < MinI32 - y THEN (x - MinI32) + (y - MinI32)
    ELSE x + y

\* `offset as u32`, `ptr as u32`: the same bits
AsU32(x) == x

\* u32 + i for 0 <= i < 2^31, wrapped (what a build without overflow checks
\* computes)
U32AddWrapped(u, i) == wrapping_add(u, i)

\* whether u32 + i exceeds u32::MAX, for 0 <= i < 2^31: the unsigned value
\* of u is 2^32 + u when u < 0
U32AddOverflows(u, i) == u < 0 /\ u + i >= 0

-----------------------------------------------------------------------------
(* Byte strings *)

Contains(s, sub) ==
    \E i \in 1..(Len(s) - Len(sub) + 1) : SubSeq(s, i, i + Len(sub) - 1) = sub

IsUpperByte(c) == c >= 65 /\ c <= 90      \* 'A'..='Z'
IsLowerByte(c) == c >= 97 /\ c <= 122     \* 'a'..='z'
IsDigitByte(c) == c >= 48 /\ c <= 57      \* '0'..='9'
IsUnderscore(c) == c = 95                 \* '_'

\* str::to_uppercase on a string of ASCII letters, digits and underscores
to_uppercase(s) ==
    [i \in 1..Len(s) |-> IF IsLowerByte(s[i]) THEN s[i] - 32 ELSE s[i]]

\* Ord for String: lexicographic on the bytes
RECURSIVE StrLess(_, _)
StrLess(a, b) ==
    IF b = <<>> THEN FALSE
    ELSE IF a = <<>> THEN TRUE
    ELSE IF a[1] # b[1] THEN a[1] < b[1]
    ELSE StrLess(Tail(a), Tail(b))

\* String::from_utf8: whether bytes[i..] is well-formed UTF-8
RECURSIVE Utf8From(_, _)
Utf8From(b, i) ==
    LET n == Len(b)
        Cont(j) == j <= n /\ b[j] >= 128 /\ b[j] <= 191
    IN  IF i > n THEN TRUE
        ELSE IF b[i] < 128 THEN Utf8From(b, i + 1)
        ELSE IF b[i] >= 194 /\ b[i] <= 223
            THEN Cont(i + 1) /\ Utf8From(b, i + 2)
        ELSE IF b[i] >= 224 /\ b[i] <= 239
            THEN /\ Cont(i + 1) /\ Cont(i + 2)
                 /\ (b[i] = 224 => b[i + 1] >= 160)
                 /\ (b[i] = 237 => b[i + 1] <= 159)
                 /\ Utf8From(b, i + 3)
        ELSE IF b[i] >= 240 /\ b[i] <= 244
            THEN /\ Cont(i + 1) /\ Cont(i + 2) /\ Cont(i + 3)
                 /\ (b[i] = 240 => b[i + 1] >= 144)
                 /\ (b[i] = 244 => b[i + 1] <= 143)
                 /\ Utf8From(b, i + 4)
        ELSE FALSE

from_utf8_ok(bytes) == Utf8From(bytes, 1)

-----------------------------------------------------------------------------
(* is_env_var: the candidate classifier *)

MinNameLen == 4
MaxNameLen == 100
MinLetters == 4

NoiseTokens ==
    { <<72, 84, 84, 80>>,                          \* "HTTP"
      <<72, 84, 84, 80, 83>>,                      \* "HTTPS"
      <<74, 83, 79, 78>>,                          \* "JSON"
      <<85, 84, 70, 56>>,                          \* "UTF8"
      <<87, 65, 83, 77>>,                          \* "WASM"
      <<67, 79, 77, 80, 79, 78, 69, 78, 84>>,      \* "COMPONENT"
      <<76, 79, 67, 65, 76, 72, 79, 83, 84>>,      \* "LOCALHOST"
      <<77, 65, 73, 78>>,                          \* "MAIN"
      <<70, 65, 76, 83, 69>>,                      \* "FALSE"
      <<84, 82, 85, 69>>,                          \* "TRUE"
      <<70, 73, 76, 69>> }                         \* "FILE"

StdlibMarkers ==
    { <<82, 85, 83, 84, 95>>,                      \* "RUST_"
      <<66, 65, 67, 75, 84, 82, 65, 67, 69>> }     \* "BACKTRACE"

KeywordFragments ==
    { <<95, 75, 69, 89>>,                          \* "_KEY"
      <<95, 84, 79, 75, 69, 78>>,                  \* "_TOKEN"
      <<95, 83, 69, 67, 82, 69, 84>>,              \* "_SECRET"
      <<95, 80, 65, 83, 83, 87, 79, 82, 68>>,      \* "_PASSWORD"
      <<95, 85, 82, 76>>,                          \* "_URL"
      <<95, 68, 66>>,                              \* "_DB"
      <<65, 80, 73, 95, 75, 69, 89>>,              \* "API_KEY"
      <<68, 65, 84, 65, 66, 65, 83, 69, 95>>,      \* "DATABASE_"
      <<72, 79, 83, 84, 95>>,                      \* "HOST_"
      <<95, 80, 79, 82, 84>>,                      \* "_PORT"
      <<95, 65, 80, 73, 95>>,                      \* "_API_"
      <<66, 69, 84, 84, 89, 95>>,                  \* "BETTY_"
      <<74, 87, 84>> }                             \* "JWT"

CharAnalysis_AnyChar(s) ==
    LET I == 1..Len(s)
    IN  [ valid |-> TRUE,
          letter_count |->
              Cardinality({i \in I : IsUpperByte(s[i]) \/ IsLowerByte(s[i])}),
          has_underscore |-> \E i \in I : IsUnderscore(s[i]),
          all_upper_or_underscore |-> \A i \in I : ~IsLowerByte(s[i]) ]

\* The single pass over s.chars(): what the loop leaves in its counters.
\* valid = FALSE is the early `return false` on any other character.
CharAnalysis(s) ==
    LET I == 1..Len(s)
    IN  [ valid |-> \A i \in I : \/ IsUpperByte(s[i]) \/ IsLowerByte(s[i])
                                  \/ IsUnderscore(s[i]) \/ IsDigitByte(s[i]),
          letter_count |->
              Cardinality({i \in I : IsUpperByte(s[i]) \/ IsLowerByte(s[i])}),
          has_underscore |-> \E i \in I : IsUnderscore(s[i]),
          all_upper_or_underscore |-> \A i \in I : ~IsLowerByte(s[i]) ]

\* `matches!(s, "HTTP" | ...)`
IsNoiseToken(s) == s \in NoiseTokens

\* `s.contains("::") || s.contains("Error") && !has_underscore`
IsRustInternal(s, has_underscore) ==
    \/ Contains(s, <<58, 58>>)
    \/ (Contains(s, <<69, 114, 114, 111, 114>>) /\ ~has_underscore)

\* `s.contains("RUST_") || s.contains("BACKTRACE")`
IsStdlibVar(s) == \E m \in StdlibMarkers : Contains(s, m)

\* Pattern 1: SCREAMING_SNAKE_CASE
Pattern1(has_underscore, all_upper_or_underscore) ==
    has_underscore /\ all_upper_or_underscore

Pattern2_NoUnderscore(s, has_underscore) ==
    \E k \in KeywordFragments : Contains(to_uppercase(s), k)

\* Pattern 2: an underscore and a strong keyword in the upper-cased string
Pattern2(s, has_underscore) ==
    has_underscore /\ \E k \in KeywordFragments : Contains(to_uppercase(s), k)

is_env_var(s) ==
    LET len == Len(s)
        c   == CharAnalysis(s)
    IN  IF len < MinNameLen \/ len > MaxNameLen THEN FALSE
        ELSE IF ~c.valid THEN FALSE
        ELSE IF c.letter_count < MinLetters THEN FALSE
        ELSE IF c.letter_count * 2 < len THEN FALSE
        ELSE IF s[1] = 95 \/ s[len] = 95 THEN FALSE
        ELSE IF IsNoiseToken(s) THEN FALSE
        ELSE IF IsRustInternal(s, c.has_underscore) THEN FALSE
        ELSE IF IsStdlibVar(s) THEN FALSE
        ELSE IF Pattern1(c.has_underscore, c.all_upper_or_underscore) THEN TRUE
        ELSE Pattern2(s, c.has_underscore)

-----------------------------------------------------------------------------
(* Value, StackFrame *)

Known(x) == [known |-> TRUE, v |-> x]
Unknown == [known |-> FALSE, v |-> 0]

EmptyLocals == [i \in {} |-> Unknown]

\* StackFrame::new
NewFrame == [stack |-> <<>>, locals |-> EmptyLocals]

\* StackFrame::push
Push(f, val) == [f EXCEPT !.stack = Append(@, val)]

\* StackFrame::pop: the value popped (Unknown from an empty stack) ...
PopValue(f) ==
    IF f.stack = <<>> THEN Unknown ELSE f.stack[Len(f.stack)]

\* ... and the frame it leaves
PopFrame(f) ==
    IF f.stack = <<>> THEN f
    ELSE [f EXCEPT !.stack = SubSeq(@, 1, Len(@) - 1)]

\* StackFrame::peek: depth 0 is the top; Unknown below the bottom
Peek(f, depth) ==
    IF Len(f.stack) >= depth + 1
        THEN f.stack[Len(f.stack) - depth]
        ELSE Unknown

ClearStack_Keep(f) == f

\* StackFrame::clear
ClearStack(f) == [f EXCEPT !.stack = <<>>]

GetLocal_Forgets(f, index) == Unknown

\* StackFrame::get_local
GetLocal(f, index) ==
    IF index \in DOMAIN f.locals THEN f.locals[index] ELSE Unknown

\* StackFrame::set_local
SetLocal(f, index, val) ==
    [f EXCEPT !.locals =
        [i \in (DOMAIN @) \cup {index} |-> IF i = index THEN val ELSE @[i]]]

-----------------------------------------------------------------------------
(* Memory image *)

NoString == [some |-> FALSE, s |-> <<>>]
SomeString(bytes) == [some |-> TRUE, s |-> bytes]

ReadMax == 1000

\* The addresses segment seg writes, and the byte it writes at address a
SegAddrs(seg) == {U32AddWrapped(seg.offset, i - 1) : i \in 1..Len(seg.data)}
SegByteAt(seg, a) ==
    seg.data[CHOOSE i \in 1..Len(seg.data) : U32AddWrapped(seg.offset, i - 1) = a]

InsertSegment_KeepFirst(map, seg) ==
    [a \in (DOMAIN map) \cup SegAddrs(seg) |->
        IF a \in DOMAIN map THEN map[a] ELSE SegByteAt(seg, a)]

\* map.insert for every byte of one segment
InsertSegment(map, seg) ==
    [a \in (DOMAIN map) \cup SegAddrs(seg) |->
        IF a \in SegAddrs(seg) THEN SegByteAt(seg, a) ELSE map[a]]

EmptyMap == [a \in {} |-> 0]

\* build_memory_map, the additions wrapped
RECURSIVE BuildFrom(_, _, _)
BuildFrom(segments, k, map) ==
    IF k > Len(segments) THEN map
    ELSE BuildFrom(segments, k + 1, InsertSegment(map, segments[k]))

build_memory_map(segments) == BuildFrom(segments, 1, EmptyMap)

\* whether `segment.offset + i as u32` overflows for some byte of some segment
BuildOverflows(segments) ==
    \E k \in 1..Len(segments) :
        \E i \in 1..Len(segments[k].data) :
            U32AddOverflows(segments[k].offset, i - 1)

read_string_SkipAbsent(map, ptr, len) ==
    IF len = 0 \/ len < 0 \/ len > ReadMax THEN NoString
    ELSE LET present == {k \in 1..len : U32AddWrapped(ptr, k - 1) \in DOMAIN map}
             all     == [k \in 1..len |->
                            IF k \in present THEN map[U32AddWrapped(ptr, k - 1)]
                                             ELSE 256]
             IsByte(x) == x < 256
             bytes   == SelectSeq(all, IsByte)
         IN  IF from_utf8_ok(bytes) THEN SomeString(bytes) ELSE NoString

\* read_string; its one caller passes 0x1000 < ptr <= i32::MAX and
\* 3 <= len <= 100, so `ptr + len` does not overflow a u32.
read_string(map, ptr, len) ==
    IF len = 0 \/ len < 0 \/ len > ReadMax THEN NoString
    ELSE IF \E k \in 0..(len - 1) : U32AddWrapped(ptr, k) \notin DOMAIN map
        THEN NoString
    ELSE LET bytes == [k \in 1..len |-> map[U32AddWrapped(ptr, k - 1)]]
         IN  IF from_utf8_ok(bytes) THEN SomeString(bytes) ELSE NoString

-----------------------------------------------------------------------------
(* Constant expressions *)

\* extract_i32_const: reads operators until the reader fails (a malformed
\* operator, or the end of the expression) and returns the first I32Const.
RECURSIVE ExtractFrom(_, _)
ExtractFrom(expr, k) ==
    IF k > Len(expr) THEN [some |-> FALSE, v |-> 0]
    ELSE IF expr[k].op = "Malformed" THEN [some |-> FALSE, v |-> 0]
    ELSE IF expr[k].op = "I32Const" THEN [some |-> TRUE, v |-> expr[k].arg]
    ELSE ExtractFrom(expr, k + 1)

extract_i32_const(expr) == ExtractFrom(expr, 1)

-----------------------------------------------------------------------------
(* analyze_function: the effect of one operator *)

PtrFloor == 4096
MinCallLen == 3
MaxCallLen == 100

NonI32ConstOps == {"I64Const", "F32Const", "F64Const"}

BinaryUnknownOps ==
    {"I32Sub", "I32Mul", "I32DivS", "I32DivU", "I32RemS", "I32RemU",
     "I32Eq", "I32Ne", "I32LtS", "I32LtU", "I32GtS", "I32GtU",
     "I32LeS", "I32LeU", "I32GeS", "I32GeU",
     "I32And", "I32Or", "I32Xor", "I32Shl", "I32ShrS", "I32ShrU",
     "I32Rotl", "I32Rotr"}

LoadOps ==
    {"I32Load", "I64Load", "F32Load", "F64Load",
     "I32Load8S", "I32Load8U", "I32Load16S", "I32Load16U"}

StoreOps ==
    {"I32Store", "I64Store", "F32Store", "F64Store", "I32Store8", "I32Store16"}

CallOps == {"Call", "CallIndirect"}

\* operators analyze_function has no arm for (`_ => {}`): the binary integer
\* operators of 64 bits and the loads that widen to 64 bits among them
UnlistedBinaryOps ==
    {"I64Add", "I64Sub", "I64Mul", "I64DivS", "I64DivU", "I64RemS", "I64RemU",
     "I64Eq", "I64Ne", "I64LtS", "I64LtU", "I64GtS", "I64GtU",
     "I64LeS", "I64LeU", "I64GeS", "I64GeU",
     "I64And", "I64Or", "I64Xor", "I64Shl", "I64ShrS", "I64ShrU",
     "I64Rotl", "I64Rotr"}

UnlistedLoadOps ==
    {"I64Load8S", "I64Load8U", "I64Load16S", "I64Load16U",
     "I64Load32S", "I64Load32U"}

\* `globals.get(global_index as usize).map(Known).unwrap_or(Unknown)`
GlobalValue(globals, global_index) ==
    IF global_index + 1 \in DOMAIN globals
        THEN Known(globals[global_index + 1])
        ELSE Unknown

\* the I32Add arm
AddValues(a, b) ==
    IF a.known /\ b.known THEN Known(wrapping_add(a.v, b.v)) ELSE Unknown

CallGuard_NoFloor(ptr, len) ==
    /\ ptr.known /\ len.known
    /\ len.v >= MinCallLen /\ len.v <= MaxCallLen

\* the guard of the Call arm on the two topmost slots
CallGuard(ptr, len) ==
    /\ ptr.known /\ len.known
    /\ ptr.v > PtrFloor /\ len.v >= MinCallLen /\ len.v <= MaxCallLen

\* the strings the Call arm inserts into env_vars: one or none
CallCandidates(f, map) ==
    LET ptr == Peek(f, 1)
        len == Peek(f, 0)
    IN  IF CallGuard(ptr, len)
        THEN LET r == read_string(map, AsU32(ptr.v), AsU32(len.v))
             IN  IF r.some /\ is_env_var(r.s) THEN {r.s} ELSE {}
        ELSE {}

SelectValue_First(a, b) == a

\* the Select arm: `if a == b { a } else { Value::Unknown }`
SelectValue(a, b) == IF a = b THEN a ELSE Unknown

IsReturn_Never(o) == FALSE

\* `Operator::Return => break`
IsReturn(o) == o.op = "Return"

\* the frame after one operator other than Return
ExecFrame(f, o, globals) ==
    IF o.op = "I32Const" THEN Push(f, Known(o.arg))
    ELSE IF o.op \in NonI32ConstOps THEN Push(f, Unknown)
    ELSE IF o.op = "GlobalGet" THEN Push(f, GlobalValue(globals, o.arg))
    ELSE IF o.op = "LocalGet" THEN Push(f, GetLocal(f, o.arg))
    ELSE IF o.op = "LocalSet" THEN SetLocal(PopFrame(f), o.arg, PopValue(f))
    ELSE IF o.op = "LocalTee" THEN SetLocal(f, o.arg, Peek(f, 0))
    ELSE IF o.op = "I32Add"
        THEN LET b  == PopValue(f)
                 f1 == PopFrame(f)
                 a  == PopValue(f1)
             IN  Push(PopFrame(f1), AddValues(a, b))
    ELSE IF o.op \in BinaryUnknownOps
        THEN Push(PopFrame(PopFrame(f)), Unknown)
    ELSE IF o.op = "I32Eqz" THEN Push(PopFrame(f), Unknown)
    ELSE IF o.op \in LoadOps THEN Push(PopFrame(f), Unknown)
    ELSE IF o.op \in StoreOps THEN PopFrame(PopFrame(f))
    ELSE IF o.op \in CallOps THEN Push(ClearStack(f), Unknown)
    ELSE IF o.op = "Drop" THEN PopFrame(f)
    ELSE IF o.op = "Select"
        THEN LET f1 == PopFrame(f)
                 b  == PopValue(f1)
                 f2 == PopFrame(f1)
                 a  == PopValue(f2)
             IN  Push(PopFrame(f2), SelectValue(a, b))
    ELSE f

ExecEnv_Overwrite(f, o, map, env) ==
    IF o.op \in CallOps /\ CallCandidates(f, map) # {}
        THEN CallCandidates(f, map)
        ELSE env

\* env_vars after one operator
ExecEnv(f, o, map, env) ==
    IF o.op \in CallOps THEN env \cup CallCandidates(f, map) ELSE env

-----------------------------------------------------------------------------
(* scan_wasm_bytes: sorting the result *)

\* Vec::insert keeping v sorted (one step of the sort)
RECURSIVE SortedInsert(_, _)
SortedInsert(v, s) ==
    IF v = <<>> THEN <<s>>
    ELSE IF StrLess(s, v[1]) THEN <<s>> \o v
    ELSE <<v[1]>> \o SortedInsert(Tail(v), s)

RECURSIVE SortFrom(_, _, _)
SortFrom(v, k, acc) ==
    IF k > Len(v) THEN acc ELSE SortFrom(v, k + 1, SortedInsert(acc, v[k]))

sort_Omitted(v) == v

\* `result.sort()`
sort(v) == SortFrom(v, 1, <<>>)

\* the orders in which a HashSet's iterator may yield its elements
Orderings(S) ==
    {v \in [1..Cardinality(S) -> S] : \A s \in S : \E i \in DOMAIN v : v[i] = s}

-----------------------------------------------------------------------------
(* The scan as a state machine *)

NoResult == [status |-> "None", vars |-> <<>>]
ErrResult == [status |-> "Err", vars |-> <<>>]
OkResult(v) == [status |-> "Ok", vars |-> v]

Payload == module[pi]
Body == module[pi].ops
NextOp == Body[ip + 1]

\* the segments collect_data_segments pushes for one data section
RECURSIVE CollectedSegments(_, _)
CollectedSegments(entries, k) ==
    IF k > Len(entries) THEN <<>>
    ELSE LET e == entries[k]
             c == extract_i32_const(e.expr)
         IN  (IF e.kind = "Active" /\ c.some
                 THEN <<[offset |-> AsU32(c.v), data |-> e.data]>>
                 ELSE <<>>)
             \o CollectedSegments(entries, k + 1)

\* the values collect_globals pushes for one global section
RECURSIVE CollectedGlobals(_, _)
CollectedGlobals(entries, k) ==
    IF k > Len(entries) THEN <<>>
    ELSE LET c == extract_i32_const(entries[k].expr)
         IN  (IF c.some THEN <<c.v>> ELSE <<>>)
             \o CollectedGlobals(entries, k + 1)

\* `data_entry?` / `global?`: the section reader fails on some entry
SectionFails(entries) == \E k \in DOMAIN entries : entries[k].kind = "Malformed"

\* first pass, Payload::DataSection
CollectData ==
    /\ phase = "collect" /\ pi <= Len(module)
    /\ Payload.kind = "DataSection" /\ ~SectionFails(Payload.entries)
    /\ data_segments' = data_segments \o CollectedSegments(Payload.entries, 1)
    /\ pi' = pi + 1
    /\ UNCHANGED <<module, phase, global_values, memory_map, env_vars, frame,
                   ip, result, workers, cls_input,
                   cls_verdict>>

\* first pass, Payload::GlobalSection
CollectGlobals ==
    /\ phase = "collect" /\ pi <= Len(module)
    /\ Payload.kind = "GlobalSection" /\ ~SectionFails(Payload.entries)
    /\ global_values' = global_values \o CollectedGlobals(Payload.entries, 1)
    /\ pi' = pi + 1
    /\ UNCHANGED <<module, phase, data_segments, memory_map, env_vars, frame,
                   ip, result, workers, cls_input,
                   cls_verdict>>

CollectSkip_SinglePass ==
    /\ phase = "collect" /\ pi <= Len(module)
    /\ Payload.kind \in {"CodeSectionEntry", "Other"}
    /\ IF Payload.kind = "CodeSectionEntry"
          THEN /\ memory_map' = build_memory_map(data_segments)
               /\ phase' = "analyze"
               /\ pi' = pi
          ELSE /\ pi' = pi + 1
               /\ UNCHANGED <<memory_map, phase>>
    /\ UNCHANGED <<module, data_segments, global_values,
                   env_vars, frame, ip, result, workers, cls_input,
                   cls_verdict>>

\* first pass, `_ => {}`
CollectSkip ==
    /\ phase = "collect" /\ pi <= Len(module)
    /\ Payload.kind \in {"CodeSectionEntry", "Other"}
    /\ pi' = pi + 1
    /\ UNCHANGED <<module, phase, data_segments, global_values, memory_map,
                   env_vars, frame, ip, result, workers, cls_input,
                   cls_verdict>>

CollectDecodeError_Ignored ==
    /\ phase = "collect" /\ pi <= Len(module)
    /\ \/ Payload.kind = "Err"
       \/ /\ Payload.kind \in {"DataSection", "GlobalSection"}
          /\ SectionFails(Payload.entries)
    /\ pi' = pi + 1
    /\ UNCHANGED <<module, phase, data_segments, global_values, memory_map,
                   env_vars, frame, ip, result, workers, cls_input,
                   cls_verdict>>

\* first pass, `payload?`, `data_entry?`, `global?`: the error is returned
\* from detect_env_vars and from scan_wasm_bytes
CollectDecodeError ==
    /\ phase = "collect" /\ pi <= Len(module)
    /\ \/ Payload.kind = "Err"
       \/ /\ Payload.kind \in {"DataSection", "GlobalSection"}
          /\ SectionFails(Payload.entries)
    /\ result' = ErrResult
    /\ phase' = "done"
    /\ UNCHANGED <<module, pi, data_segments, global_values, memory_map,
                   env_vars, frame, ip, workers, cls_input,
                   cls_verdict>>

\* build_memory_map after the first pass.  `segment.offset + i as u32`
\* panics on overflow in a build with overflow checks and wraps in one
\* without.
BuildMemoryMap ==
    /\ phase = "collect" /\ pi > Len(module)
    /\ \/ /\ memory_map' = build_memory_map(data_segments)
          /\ phase' = "analyze"
          /\ pi' = 1
       \/ /\ BuildOverflows(data_segments)
          /\ phase' = "panic"
          /\ UNCHANGED <<memory_map, pi>>
    /\ UNCHANGED <<module, data_segments, global_values, env_vars, frame, ip,
                   result, workers, cls_input,
                   cls_verdict>>

\* second pass, a payload that is not Ok(CodeSectionEntry)
AnalyzeSkip ==
    /\ phase = "analyze" /\ pi <= Len(module)
    /\ Payload.kind # "CodeSectionEntry"
    /\ pi' = pi + 1
    /\ UNCHANGED <<module, phase, data_segments, global_values, memory_map,
                   env_vars, frame, ip, result, workers, cls_input,
                   cls_verdict>>

EnterFunction_SharedFrame ==
    /\ phase = "analyze" /\ pi <= Len(module)
    /\ Payload.kind = "CodeSectionEntry" /\ Payload.locals_ok
    /\ ip' = 0
    /\ phase' = "function"
    /\ UNCHANGED <<module, pi, data_segments, global_values, memory_map,
                   env_vars, frame, result, workers, cls_input,
                   cls_verdict>>

\* analyze_function up to its loop: a new frame, the local declarations skipped
EnterFunction ==
    /\ phase = "analyze" /\ pi <= Len(module)
    /\ Payload.kind = "CodeSectionEntry" /\ Payload.locals_ok
    /\ frame' = NewFrame
    /\ ip' = 0
    /\ phase' = "function"
    /\ UNCHANGED <<module, pi, data_segments, global_values, memory_map,
                   env_vars, result, workers, cls_input,
                   cls_verdict>>

\* the result of `analyze_function(..)?` when analyze_function returns Err
PropagateFunctionError ==
    /\ result' = ErrResult
    /\ phase' = "done"

\* analyze_function: `read_var_u32()?` / `read::<ValType>()?` fails
LocalsDecodeError ==
    /\ phase = "analyze" /\ pi <= Len(module)
    /\ Payload.kind = "CodeSectionEntry" /\ ~Payload.locals_ok
    /\ PropagateFunctionError
    /\ UNCHANGED <<module, pi, data_segments, global_values, memory_map,
                   env_vars, frame, ip, workers, cls_input,
                   cls_verdict>>

\* one iteration of the loop: an operator other than Return
ExecOperator ==
    /\ phase = "function" /\ ip < Len(Body)
    /\ NextOp.op # "Malformed" /\ ~IsReturn(NextOp)
    /\ frame' = ExecFrame(frame, NextOp, global_values)
    /\ env_vars' = ExecEnv(frame, NextOp, memory_map, env_vars)
    /\ ip' = ip + 1
    /\ UNCHANGED <<module, phase, pi, data_segments, global_values, memory_map,
                   result, workers, cls_input,
                   cls_verdict>>

\* one iteration of the loop: `reader.read_operator()?` fails
OperatorDecodeError ==
    /\ phase = "function" /\ ip < Len(Body)
    /\ NextOp.op = "Malformed"
    /\ PropagateFunctionError
    /\ UNCHANGED <<module, pi, data_segments, global_values, memory_map,
                   env_vars, frame, ip, workers, cls_input,
                   cls_verdict>>

\* `Operator::Return => break`, or `reader.eof()`: analyze_function returns Ok
LeaveFunction ==
    /\ phase = "function"
    /\ \/ ip = Len(Body)
       \/ ip < Len(Body) /\ IsReturn(NextOp)
    /\ phase' = "analyze"
    /\ pi' = pi + 1
    /\ UNCHANGED <<module, data_segments, global_values, memory_map, env_vars,
                   frame, ip, result, workers, cls_input,
                   cls_verdict>>

\* detect_env_vars returns Ok(env_vars); scan_wasm_bytes collects the HashSet
\* into a Vec, in the order the set's iterator happens to yield
CollectResult ==
    /\ phase = "analyze" /\ pi > Len(module)
    /\ \E v \in Orderings(env_vars) : result' = OkResult(v)
    /\ phase' = "sort"
    /\ UNCHANGED <<module, pi, data_segments, global_values, memory_map,
                   env_vars, frame, ip, workers, cls_input,
                   cls_verdict>>

\* `result.sort(); Ok(result)`
SortResult ==
    /\ phase = "sort"
    /\ result' = OkResult(sort(result.vars))
    /\ phase' = "done"
    /\ UNCHANGED <<module, pi, data_segments, global_values, memory_map,
                   env_vars, frame, ip, workers, cls_input,
                   cls_verdict>>

-----------------------------------------------------------------------------
(* Inputs: the modules the scan is run on *)

MaxOps == 5        \* operators in the body of a single-function module
MaxFuncs == 2      \* function bodies in a multi-function module
MaxGlobals == 2    \* globals declared in a global section
MaxSegs == 2       \* entries in a data section

SeqsUpTo(S, n) == UNION {[1..k -> S] : k \in 0..n}
SeqsFromTo(S, m, n) == UNION {[1..k -> S] : k \in m..n}

Op(name, arg) == [op |-> name, arg |-> arg]
I32Const(x) == Op("I32Const", x)
GlobalGet(i) == Op("GlobalGet", i)
I32Add == Op("I32Add", 0)
Call == Op("Call", 0)
EndOp == Op("End", 0)
Malformed == Op("Malformed", 0)
Return == Op("Return", 0)
LocalGet(i) == Op("LocalGet", i)
LocalSet(i) == Op("LocalSet", i)

DATABASE_URL == <<68, 65, 84, 65, 66, 65, 83, 69, 95, 85, 82, 76>>
API_BASE_URL == <<65, 80, 73, 95, 66, 65, 83, 69, 95, 85, 82, 76>>
HTTP == <<72, 84, 84, 80>>
JSON == <<74, 83, 79, 78>>

\* A layout places two strings of one length back to back: lo at address
\* base - Len(lo) and hi at address base.
Layout(lo, hi, base) == [lo |-> lo, hi |-> hi, base |-> base]
LoAddr(l) == l.base - Len(l.lo)
HiAddr(l) == l.base
StrLen(l) == Len(l.hi)
LayoutData(l) == l.lo \o l.hi

NamesHigh == Layout(API_BASE_URL, DATABASE_URL, 2 * PtrFloor)
NamesAtFloor == Layout(API_BASE_URL, DATABASE_URL, PtrFloor + 1)
NoiseHigh == Layout(JSON, HTTP, 2 * PtrFloor)

DataEntry(kind, expr, data) == [kind |-> kind, expr |-> expr, data |-> data]
GlobalEntry(kind, expr) == [kind |-> kind, expr |-> expr, data |-> <<>>]

DataSection(entries) ==
    [kind |-> "DataSection", entries |-> entries, locals_ok |-> TRUE, ops |-> <<>>]
GlobalSection(entries) ==
    [kind |-> "GlobalSection", entries |-> entries, locals_ok |-> TRUE, ops |-> <<>>]
CodeSectionEntry(locals_ok, ops) ==
    [kind |-> "CodeSectionEntry", entries |-> <<>>, locals_ok |-> locals_ok, ops |-> ops]
OtherPayload ==
    [kind |-> "Other", entries |-> <<>>, locals_ok |-> TRUE, ops |-> <<>>]
ErrPayload ==
    [kind |-> "Err", entries |-> <<>>, locals_ok |-> TRUE, ops |-> <<>>]

\* the data section that places layout l with one active segment
LayoutSection(l) ==
    DataSection(<<DataEntry("Active", <<I32Const(LoAddr(l)), EndOp>>, LayoutData(l))>>)

\* the code section entries of the bodies in fs
RECURSIVE CodeEntries(_)
CodeEntries(fs) ==
    IF fs = <<>> THEN <<>>
    ELSE <<CodeSectionEntry(TRUE, fs[1])>> \o CodeEntries(Tail(fs))

\* Pointer family: one function, every body of at most MaxOps operators over
\* the constants of the layout, addition and call.
PointerOps(l) ==
    {I32Const(HiAddr(l)), I32Const(LoAddr(l)), I32Const(StrLen(l)), I32Add, Call}

PointerModule(m) ==
    \E l \in {NamesHigh, NamesAtFloor, NoiseHigh} :
        \E b \in SeqsUpTo(PointerOps(l), MaxOps) :
            m = <<LayoutSection(l), CodeSectionEntry(TRUE, b)>>

\* Multi-function family: up to MaxFuncs bodies, the data section before or
\* after the code.
ShortBodies ==
    LET l == NamesHigh
        P == I32Const(HiAddr(l))
        Q == I32Const(LoAddr(l))
        L == I32Const(StrLen(l))
    IN  { <<P, L, Call>>, <<Q, L, Call>>, <<Q, L, I32Add, L, Call>>,
          <<P, L, Call, Malformed>>, <<Malformed, P, L, Call>>,
          <<P>>, <<L, Call>>, <<>>,
          <<P, LocalSet(0)>>, <<LocalGet(0), L, Call>> }

MultiModule(m) ==
    \E fs \in SeqsFromTo(ShortBodies, 1, MaxFuncs) :
        \/ m = <<OtherPayload, LayoutSection(NamesHigh)>> \o CodeEntries(fs)
        \/ m = <<OtherPayload>> \o CodeEntries(fs) \o <<LayoutSection(NamesHigh)>>

\* Global family: up to MaxGlobals globals, each initializer one of these
\* expressions, and one function that reads a global as the pointer.
GlobalInits ==
    LET l == NamesHigh
    IN  { GlobalEntry("Global", <<I32Const(HiAddr(l)), EndOp>>),
          GlobalEntry("Global", <<I32Const(LoAddr(l)), EndOp>>),
          GlobalEntry("Global", <<Op("I64Const", 0), EndOp>>),
          GlobalEntry("Global", <<GlobalGet(0), I32Const(StrLen(l)),
                                  I32Add, EndOp>>),
          GlobalEntry("Malformed", <<>>) }

GlobalModule(m) ==
    \E gs \in SeqsFromTo(GlobalInits, 1, MaxGlobals) :
        \E i \in 0..MaxGlobals :
            m = <<GlobalSection(gs), LayoutSection(NamesHigh),
                  CodeSectionEntry(TRUE, <<GlobalGet(i),
                                           I32Const(StrLen(NamesHigh)), Call>>)>>

\* Segment family: up to MaxSegs data entries, each of one of these kinds, and
\* one function that passes a constant pointer.
SegmentEntries ==
    LET l == NamesHigh
        d == LayoutData(l)
    IN  { DataEntry("Active", <<I32Const(LoAddr(l)), EndOp>>, d),
          DataEntry("Active", <<I32Const(PtrFloor - StrLen(l)), EndOp>>, d),
          DataEntry("Active", <<GlobalGet(0), EndOp>>, d),
          DataEntry("Active", <<GlobalGet(0), I32Const(LoAddr(l)),
                                I32Add, EndOp>>, d),
          DataEntry("Active", <<I32Const(-StrLen(l)), EndOp>>, d),
          DataEntry("Passive", <<>>, d),
          DataEntry("Malformed", <<>>, <<>>) }

SegmentModule(m) ==
    \E es \in SeqsFromTo(SegmentEntries, 1, MaxSegs) :
        \E p \in {HiAddr(NamesHigh), PtrFloor} :
            m = <<DataSection(es),
                  CodeSectionEntry(TRUE, <<I32Const(p),
                                           I32Const(StrLen(NamesHigh)), Call>>)>>

\* Framing family: a well-formed module cut short by a decode error of the
\* section framing, and function bodies whose local declarations do not decode.
FramingModuleSet ==
    LET l    == NamesHigh
        call == <<I32Const(HiAddr(l)), I32Const(StrLen(l)), Call>>
        full == <<OtherPayload, LayoutSection(l), CodeSectionEntry(TRUE, call),
                  CodeSectionEntry(TRUE, call)>>
    IN  {SubSeq(full, 1, k) \o <<ErrPayload>> : k \in 0..Len(full)}
        \cup {<<LayoutSection(l), CodeSectionEntry(ok1, call),
                CodeSectionEntry(ok2, call)>> : ok1, ok2 \in BOOLEAN}
        \cup {<<>>}

FramingModule(m) == m \in FramingModuleSet

\* Operator family: one function, every body of at most MaxBody operators
\* over constants, arithmetic, a load, the calls, return and drop.
MaxBody == 4       \* operators in the body of an operator-family module

OperatorOps ==
    LET l == NamesHigh
    IN  { I32Const(HiAddr(l)), I32Const(StrLen(l)), I32Add, Op("I32Sub", 0),
          Op("I32Load", 0), Call, Op("CallIndirect", 0), Return, Op("Drop", 0) }

OperatorModule(m) ==
    \E b \in SeqsUpTo(OperatorOps, MaxBody) :
        m = <<LayoutSection(NamesHigh), CodeSectionEntry(TRUE, b)>>

\* Arithmetic family: every binary integer operator and every load, after
\* operands that are constants, with a call directly after it.
ArithmeticPrefixes ==
    LET l == NamesHigh
        P == I32Const(HiAddr(l))
        L == I32Const(StrLen(l))
    IN  { <<P, L>>, <<P, L, L>>, <<P, P, L>>,
          <<P, Op("I64ExtendI32U", 0), L, Op("I64ExtendI32U", 0)>> }

ArithmeticModule(m) ==
    \E pre \in ArithmeticPrefixes :
        \E o \in BinaryUnknownOps \cup UnlistedBinaryOps
                  \cup LoadOps \cup UnlistedLoadOps :
            m = <<LayoutSection(NamesHigh),
                  CodeSectionEntry(TRUE, pre \o <<Op(o, 0), Call>>)>>

\* Wrap family: the pointer is the sum of two constants, over constants whose
\* sum leaves the i32 range, with the names in low memory or in the upper
\* half of the address space.
NamesUpperHalf == Layout(API_BASE_URL, DATABASE_URL, MinI32 + StrLen(NamesHigh))

WrapConsts ==
    { MaxI32, MinI32, MinI32 + HiAddr(NamesHigh), StrLen(NamesHigh) + 1, -1,
      HiAddr(NamesHigh) + 1 }

WrapModule(m) ==
    \E l \in {NamesHigh, NamesUpperHalf} :
        \E a, b \in WrapConsts :
            m = <<LayoutSection(l),
                  CodeSectionEntry(TRUE, <<I32Const(a), I32Const(b), I32Add,
                                           I32Const(StrLen(l)), Call>>)>>

\* Control family: a return before, between or after calls, bare or inside a
\* block, a loop or an if.
ControlBodies ==
    LET l == NamesHigh
        P == I32Const(HiAddr(l))
        Q == I32Const(LoAddr(l))
        L == I32Const(StrLen(l))
    IN  { <<Return, P, L, Call>>,
          <<P, L, Call, Return, Q, L, Call>>,
          <<P, Op("If", 0), Return, EndOp, P, L, Call>>,
          <<Op("Block", 0), Return, EndOp, P, L, Call>>,
          <<Op("Loop", 0), P, L, Return, Call, EndOp>>,
          <<Op("Block", 0), P, L, Call, EndOp, Return>>,
          <<Return, Malformed>>, <<Malformed, Return>> }

ControlModule(m) ==
    \E fs \in SeqsFromTo(ControlBodies, 1, 2) :
        m = <<LayoutSection(NamesHigh)>> \o CodeEntries(fs)

\* Hole family: one name whole in one segment, the other split over two
\* segments that leave its byte k out (k = 0: no byte left out), and one
\* function per name.
HoleEntries(k) ==
    LET l == NamesHigh
        d == l.hi
        n == Len(d)
        Const(a) == <<I32Const(a), EndOp>>
    IN  << DataEntry("Active", Const(LoAddr(l)), l.lo),
           DataEntry("Active", Const(HiAddr(l)), SubSeq(d, 1, k - 1)),
           DataEntry("Active", Const(HiAddr(l) + k), SubSeq(d, k + 1, n)) >>

HoleModule(m) ==
    LET l == NamesHigh
        P == I32Const(HiAddr(l))
        Q == I32Const(LoAddr(l))
        L == I32Const(StrLen(l))
    IN  \E k \in 0..StrLen(l) :
            \E fs \in { <<<<P, L, Call>>, <<Q, L, Call>>>>,
                         <<<<Q, L, Call>>, <<P, L, Call>>>>,
                         <<<<P, L, Call, Q, L, Call>>>> } :
                m = <<DataSection(HoleEntries(k))>> \o CodeEntries(fs)

\* Overlap family: up to MaxSegs active segments that overlap one another in
\* part or in whole, with different bytes, and one function per name.
OverlapEntries ==
    LET l == NamesHigh
        Const(a) == <<I32Const(a), EndOp>>
    IN  { DataEntry("Active", Const(LoAddr(l)), LayoutData(l)),
          DataEntry("Active", Const(HiAddr(l)), l.lo),
          DataEntry("Active", Const(HiAddr(l) - 4), JSON \o HTTP \o JSON),
          DataEntry("Active", Const(LoAddr(l)), l.hi) }

OverlapModule(m) ==
    LET l == NamesHigh
        P == I32Const(HiAddr(l))
        Q == I32Const(LoAddr(l))
        L == I32Const(StrLen(l))
    IN  \E es \in SeqsFromTo(OverlapEntries, 1, MaxSegs) :
            m = <<DataSection(es), CodeSectionEntry(TRUE, <<P, L, Call>>),
                  CodeSectionEntry(TRUE, <<Q, L, Call>>)>>

\* Select family: select over two candidates and a condition that are each
\* one of two constants or not a constant, or over fewer slots than three,
\* then a length and a call.
MaxOperands == 4   \* operators before the select of a select-family module

SelectOperands ==
    LET l == NamesHigh
    IN  {I32Const(HiAddr(l)), I32Const(LoAddr(l)), Op("I64Const", 0)}

SelectModule(m) ==
    LET L == I32Const(StrLen(NamesHigh))
    IN  \E pre \in SeqsUpTo(SelectOperands, MaxOperands) :
            m = <<LayoutSection(NamesHigh),
                  CodeSectionEntry(TRUE, pre \o <<Op("Select", 0), L, Call>>)>>

\* Locals family: a pointer is stored in a local by set or tee, stored over,
\* or not stored; then nothing, a call, or a call with two operands; then a
\* local is read as the pointer of a call.
LocalStores ==
    LET l == NamesHigh
        P == I32Const(HiAddr(l))
        Q == I32Const(LoAddr(l))
    IN  { <<P, LocalSet(0)>>,
          <<P, Op("LocalTee", 0), Op("Drop", 0)>>,
          <<Q, LocalSet(0), P, LocalSet(1)>>,
          <<P, LocalSet(0), Q, LocalSet(0)>>,
          <<P, LocalSet(0), Q, Op("LocalTee", 0)>>,
          <<P, LocalSet(0), LocalSet(0)>>,
          <<LocalSet(0)>>,
          <<>> }

LocalsModule(m) ==
    LET L == I32Const(StrLen(NamesHigh))
    IN  \E st \in LocalStores :
            \E mid \in {<<>>, <<Call>>, <<L, L, Call>>} :
                \E i \in {0, 1} :
                    m = <<LayoutSection(NamesHigh),
                          CodeSectionEntry(TRUE, st \o mid \o <<LocalGet(i), L, Call>>)>>

IsInput(m) ==
    \/ PointerModule(m)
    \/ MultiModule(m)
    \/ GlobalModule(m)
    \/ SegmentModule(m)
    \/ FramingModule(m)
    \/ OverlapModule(m)

-----------------------------------------------------------------------------
(* Specification of the scan *)

Init ==
    /\ IsInput(module)
    /\ phase = "collect"
    /\ pi = 1
    /\ data_segments = <<>>
    /\ global_values = <<>>
    /\ memory_map = EmptyMap
    /\ env_vars = {}
    /\ frame = NewFrame
    /\ ip = 0
    /\ result = NoResult
    /\ workers = <<>>
    /\ cls_input = <<>>
    /\ cls_verdict = "none"

Next ==
    \/ CollectData
    \/ CollectGlobals
    \/ CollectSkip
    \/ CollectDecodeError
    \/ BuildMemoryMap
    \/ AnalyzeSkip
    \/ EnterFunction
    \/ LocalsDecodeError
    \/ ExecOperator
    \/ OperatorDecodeError
    \/ LeaveFunction
    \/ CollectResult
    \/ SortResult

Spec == Init /\ [][Next]_vars

\* the scan on the modules that exercise the single operators
InitOperators ==
    /\ \/ OperatorModule(module)
       \/ ArithmeticModule(module)
       \/ WrapModule(module)
       \/ ControlModule(module)
       \/ HoleModule(module)
       \/ SelectModule(module)
       \/ LocalsModule(module)
       \/ GlobalModule(module)
       \/ SegmentModule(module)
       \/ FramingModule(module)
    /\ phase = "collect"
    /\ pi = 1
    /\ data_segments = <<>>
    /\ global_values = <<>>
    /\ memory_map = EmptyMap
    /\ env_vars = {}
    /\ frame = NewFrame
    /\ ip = 0
    /\ result = NoResult
    /\ workers = <<>>
    /\ cls_input = <<>>
    /\ cls_verdict = "none"

SpecOperators == InitOperators /\ [][Next]_vars

-----------------------------------------------------------------------------
(* The scan as a function of the module, in the order the code runs it *)

\* the loop of analyze_function from operator k on: whether it returns Ok,
\* and env_vars when it returns
RECURSIVE RunBody(_, _, _, _, _, _)
RunBody(ops, k, f, globals, map, env) ==
    IF k > Len(ops) THEN [ok |-> TRUE, env |-> env]
    ELSE IF ops[k].op = "Malformed" THEN [ok |-> FALSE, env |-> env]
    ELSE IF IsReturn(ops[k]) THEN [ok |-> TRUE, env |-> env]
    ELSE RunBody(ops, k + 1, ExecFrame(f, ops[k], globals), globals, map,
                 ExecEnv(f, ops[k], map, env))

analyze_function(body, globals, map, env) ==
    IF ~body.locals_ok THEN [ok |-> FALSE, env |-> env]
    ELSE RunBody(body.ops, 1, NewFrame, globals, map, env)

\* the second pass of detect_env_vars from payload k on
RECURSIVE SecondPass(_, _, _, _, _)
SecondPass(m, k, globals, map, env) ==
    IF k > Len(m) THEN [ok |-> TRUE, env |-> env]
    ELSE IF m[k].kind # "CodeSectionEntry"
        THEN SecondPass(m, k + 1, globals, map, env)
    ELSE LET r == analyze_function(m[k], globals, map, env)
         IN  IF r.ok THEN SecondPass(m, k + 1, globals, map, r.env) ELSE r

\* the first pass of detect_env_vars from payload k on
RECURSIVE FirstPass(_, _, _, _)
FirstPass(m, k, segments, globals) ==
    IF k > Len(m) THEN [ok |-> TRUE, segments |-> segments, globals |-> globals]
    ELSE IF m[k].kind = "Err"
        THEN [ok |-> FALSE, segments |-> segments, globals |-> globals]
    ELSE IF m[k].kind \in {"DataSection", "GlobalSection"}
            /\ SectionFails(m[k].entries)
        THEN [ok |-> FALSE, segments |-> segments, globals |-> globals]
    ELSE IF m[k].kind = "DataSection"
        THEN FirstPass(m, k + 1,
                       segments \o CollectedSegments(m[k].entries, 1), globals)
    ELSE IF m[k].kind = "GlobalSection"
        THEN FirstPass(m, k + 1, segments,
                       globals \o CollectedGlobals(m[k].entries, 1))
    ELSE FirstPass(m, k + 1, segments, globals)

detect_env_vars(m) ==
    LET c == FirstPass(m, 1, <<>>, <<>>)
    IN  IF ~c.ok THEN [ok |-> FALSE, env |-> {}]
        ELSE SecondPass(m, 1, c.globals, build_memory_map(c.segments), {})

\* scan_wasm_bytes when build_memory_map does not panic
scan_wasm_bytes(m) ==
    LET r == detect_env_vars(m)
    IN  IF ~r.ok THEN ErrResult
        ELSE OkResult(sort(CHOOSE v \in Orderings(r.env) : TRUE))

-----------------------------------------------------------------------------
(* The function bodies analysed in any order, interleaved *)

CodeIndices(m) == {k \in DOMAIN m : m[k].kind = "CodeSectionEntry"}

IdleWorker == [state |-> "idle", frame |-> NewFrame, ip |-> 0]

\* a function body's analysis starts: its own new frame
WorkerStart(k) ==
    /\ phase = "analyze"
    /\ workers[k].state = "idle" /\ module[k].locals_ok
    /\ workers' = [workers EXCEPT ![k] = [state |-> "running",
                                          frame |-> NewFrame, ip |-> 0]]
    /\ UNCHANGED <<module, phase, pi, data_segments, global_values, memory_map,
                   env_vars, frame, ip, result, cls_input, cls_verdict>>

\* one operator of body k, on its own frame, inserting into the shared set
WorkerStep(k) ==
    /\ phase = "analyze"
    /\ workers[k].state = "running" /\ workers[k].ip < Len(module[k].ops)
    /\ LET o == module[k].ops[workers[k].ip + 1]
       IN  /\ o.op # "Malformed" /\ ~IsReturn(o)
           /\ workers' = [workers EXCEPT
                            ![k].frame = ExecFrame(@, o, global_values),
                            ![k].ip = @ + 1]
           /\ env_vars' = ExecEnv(workers[k].frame, o, memory_map, env_vars)
    /\ UNCHANGED <<module, phase, pi, data_segments, global_values, memory_map,
                   frame, ip, result, cls_input, cls_verdict>>

\* body k fails to decode: the scan returns the error
WorkerError(k) ==
    /\ phase = "analyze"
    /\ \/ workers[k].state = "idle" /\ ~module[k].locals_ok
       \/ /\ workers[k].state = "running"
          /\ workers[k].ip < Len(module[k].ops)
          /\ module[k].ops[workers[k].ip + 1].op = "Malformed"
    /\ PropagateFunctionError
    /\ UNCHANGED <<module, pi, data_segments, global_values, memory_map,
                   env_vars, frame, ip, workers, cls_input, cls_verdict>>

\* body k returns Ok
WorkerDone(k) ==
    /\ phase = "analyze"
    /\ workers[k].state = "running"
    /\ \/ workers[k].ip = Len(module[k].ops)
       \/ /\ workers[k].ip < Len(module[k].ops)
          /\ IsReturn(module[k].ops[workers[k].ip + 1])
    /\ workers' = [workers EXCEPT ![k].state = "done"]
    /\ UNCHANGED <<module, phase, pi, data_segments, global_values, memory_map,
                   env_vars, frame, ip, result, cls_input, cls_verdict>>

\* every body has returned Ok: the HashSet is collected into the Vec
CollectResultAnyOrder ==
    /\ phase = "analyze"
    /\ \A k \in DOMAIN workers : workers[k].state = "done"
    /\ \E v \in Orderings(env_vars) : result' = OkResult(v)
    /\ phase' = "sort"
    /\ UNCHANGED <<module, pi, data_segments, global_values, memory_map,
                   env_vars, frame, ip, workers, cls_input, cls_verdict>>

InitAnyOrder ==
    /\ \/ MultiModule(module)
       \/ GlobalModule(module)
       \/ SegmentModule(module)
       \/ FramingModule(module)
    /\ phase = "collect"
    /\ pi = 1
    /\ data_segments = <<>>
    /\ global_values = <<>>
    /\ memory_map = EmptyMap
    /\ env_vars = {}
    /\ frame = NewFrame
    /\ ip = 0
    /\ result = NoResult
    /\ workers = [k \in CodeIndices(module) |-> IdleWorker]
    /\ cls_input = <<>>
    /\ cls_verdict = "none"

NextAnyOrder ==
    \/ CollectData
    \/ CollectGlobals
    \/ CollectSkip
    \/ CollectDecodeError
    \/ BuildMemoryMap
    \/ \E k \in DOMAIN workers : WorkerStart(k)
    \/ \E k \in DOMAIN workers : WorkerStep(k)
    \/ \E k \in DOMAIN workers : WorkerError(k)
    \/ \E k \in DOMAIN workers : WorkerDone(k)
    \/ CollectResultAnyOrder
    \/ SortResult

SpecAnyOrder == InitAnyOrder /\ [][NextAnyOrder]_vars

-----------------------------------------------------------------------------
(* The classifier on its own *)

MaxTokens == 3     \* tokens concatenated into a classifier input

Pad97 == [i \in 1..97 |-> 65]                     \* 97 times 'A'

Tokens ==
    { <<95>>,                                      \* "_"
      <<95, 68, 66>>,                              \* "_DB"
      <<77, 89>>,                                  \* "MY"
      <<109, 121>>,                                \* "my"
      <<100, 98>>,                                 \* "db"
      <<106, 119, 116>>,                           \* "jwt"
      <<82, 85, 83, 84>>,                          \* "RUST"
      <<114, 117, 115, 116>>,                      \* "rust"
      <<72, 84, 84, 80>>,                          \* "HTTP"
      <<69, 114, 114, 111, 114>>,                  \* "Error"
      <<49, 50, 51>>,                              \* "123"
      <<49, 50, 51, 52>>,                          \* "1234"
      <<45>>,                                      \* "-"
      <<195, 169>>,                                \* U+00E9
      Pad97 }

RECURSIVE Concat(_)
Concat(ts) == IF ts = <<>> THEN <<>> ELSE ts[1] \o Concat(Tail(ts))

\* `is_env_var(&s)` on one string
Classify ==
    /\ phase = "classify" /\ cls_verdict = "none"
    /\ cls_verdict' = IF is_env_var(cls_input) THEN "accept" ELSE "reject"
    /\ UNCHANGED <<module, phase, pi, data_segments, global_values, memory_map,
                   env_vars, frame, ip, result, workers, cls_input>>

InitClassifier ==
    /\ \E ts \in SeqsUpTo(Tokens, MaxTokens) : cls_input = Concat(ts)
    /\ cls_verdict = "none"
    /\ module = <<>>
    /\ phase = "classify"
    /\ pi = 1
    /\ data_segments = <<>>
    /\ global_values = <<>>
    /\ memory_map = EmptyMap
    /\ env_vars = {}
    /\ frame = NewFrame
    /\ ip = 0
    /\ result = NoResult
    /\ workers = <<>>

NextClassifier == Classify

SpecClassifier == InitClassifier /\ [][NextClassifier]_vars

-----------------------------------------------------------------------------
(* The command-line program's own scanner (src/src/main.rs) *)

\* `s.starts_with(..)`
StartsWith(s, pre) == Len(s) >= Len(pre) /\ SubSeq(s, 1, Len(pre)) = pre

\* is_env_var_candidate: the `noise` array, in the order of the source
CandidateNoise ==
    { <<72, 84, 84, 80>>,
      <<72, 84, 84, 80, 83>>,
      <<74, 83, 79, 78>>,
      <<85, 84, 70, 56>>,
      <<87, 65, 83, 77>>,
      <<67, 79, 77, 80, 79, 78, 69, 78, 84>>,
      <<82, 85, 83, 84, 95, 66, 65, 67, 75, 84, 82, 65, 67, 69>>,
      <<82, 85, 83, 84, 95, 76, 79, 71>>,
      <<82, 85, 83, 84, 95, 76, 73, 66, 95, 66, 65, 67, 75, 84, 82, 65, 67, 69>>,
      <<76, 79, 67, 65, 76, 72, 79, 83, 84>>,
      <<77, 65, 73, 78>>,
      <<83, 84, 68>>,
      <<67, 79, 82, 69>>,
      <<65, 76, 76, 79, 67>> }

\* is_env_var_candidate: has_keyword_suffix, in the order of the source
CandidateKeywordSuffixes ==
    { <<95, 75, 69, 89>>,
      <<95, 84, 79, 75, 69, 78>>,
      <<95, 83, 69, 67, 82, 69, 84>>,
      <<95, 80, 65, 83, 83, 87, 79, 82, 68>>,
      <<95, 85, 82, 76>>,
      <<95, 68, 66>>,
      <<65, 80, 73, 95>> }

\* is_env_var_candidate: is_exact_keyword, in the order of the source
CandidateExactKeywords ==
    { <<80, 65, 83, 83, 87, 79, 82, 68>>,
      <<85, 83, 69, 82, 78, 65, 77, 69>>,
      <<85, 83, 69, 82>>,
      <<72, 79, 83, 84>>,
      <<80, 79, 82, 84>>,
      <<68, 66>>,
      <<68, 65, 84, 65, 66, 65, 83, 69>>,
      <<84, 79, 75, 69, 78>>,
      <<83, 69, 67, 82, 69, 84>>,
      <<75, 69, 89>>,
      <<69, 78, 86>> }

CandidateMinLen == 3
CandidateMaxLen == 100
CandidateMinLetters == 3

is_env_var_candidate(s) ==
    LET I       == 1..Len(s)
        IsAlpha(c) == IsUpperByte(c) \/ IsLowerByte(c)
        upper   == to_uppercase(s)
        letters == Cardinality({i \in I : IsAlpha(s[i])})
        is_screaming_snake ==
            /\ \E i \in I : IsUnderscore(s[i])
            /\ \A i \in I : \/ IsUpperByte(s[i]) \/ IsUnderscore(s[i])
                            \/ IsDigitByte(s[i])
            /\ letters >= CandidateMinLetters
    IN  IF Len(s) < CandidateMinLen \/ Len(s) > CandidateMaxLen THEN FALSE
        ELSE IF ~\E i \in I : IsAlpha(s[i]) THEN FALSE
        ELSE IF ~\A i \in I : \/ IsAlpha(s[i]) \/ IsDigitByte(s[i])
                              \/ IsUnderscore(s[i]) THEN FALSE
        ELSE IF \/ StartsWith(s, <<95, 90, 78>>)          \* "_ZN"
                \/ StartsWith(s, <<95, 95>>)              \* "__"
                \/ Contains(s, <<49, 55, 104>>)           \* "17h"
            THEN FALSE
        ELSE IF s[Len(s)] = 95 \/ s[1] = 95 THEN FALSE
        ELSE IF upper \in CandidateNoise THEN FALSE
        ELSE IF \/ Contains(upper, <<82, 85, 83, 84, 95, 66, 65, 67, 75, 84, 82, 65, 67, 69>>)
                \/ Contains(upper, <<82, 85, 83, 84, 95, 76, 73, 66, 95, 66, 65, 67, 75, 84, 82, 65>>)
            THEN FALSE
        ELSE IF is_screaming_snake THEN TRUE
        ELSE \/ \E k \in CandidateKeywordSuffixes : Contains(upper, k)
             \/ upper \in CandidateExactKeywords

\* extract_string_from_memory; its one caller passes 0 < pointer <= i32::MAX
\* and 0 < length < 200, so `pointer + length` does not overflow a u32
CandidateReadMax == 1000

extract_string_from_memory(map, pointer, length) ==
    IF length = 0 \/ length < 0 \/ length > CandidateReadMax THEN NoString
    ELSE IF \E k \in 0..(length - 1) : U32AddWrapped(pointer, k) \notin DOMAIN map
        THEN NoString
    ELSE LET bytes == [k \in 1..length |-> map[U32AddWrapped(pointer, k - 1)]]
         IN  IF from_utf8_ok(bytes) THEN SomeString(bytes) ELSE NoString

CandidateMaxCallLen == 200

\* the sanity checks of the call arm: `len > 0 && len < 200 && ptr > 0`
CandidateCallGuard(ptr, len) ==
    /\ ptr.known /\ len.known
    /\ len.v > 0 /\ len.v < CandidateMaxCallLen /\ ptr.v > 0

\* the strings the call arm of scan_function_deterministic inserts
CandidateCallCandidates(f, map) ==
    LET arg_len == Peek(f, 0)
        arg_ptr == Peek(f, 1)
    IN  IF CandidateCallGuard(arg_ptr, arg_len)
        THEN LET r == extract_string_from_memory(map, AsU32(arg_ptr.v),
                                                 AsU32(arg_len.v))
             IN  IF r.some /\ is_env_var_candidate(r.s) THEN {r.s} ELSE {}
        ELSE {}

\* scan_function_deterministic: the frame after one operator other than
\* Return.  The call arm pushes Unknown and does not clear the stack.
DeterministicFrame(f, o, globals) ==
    IF o.op = "I32Eqz" THEN Push(PopFrame(f), Unknown)
    ELSE IF o.op \in {"I32Eq", "I32Ne", "I32LtS", "I32LtU"}
        THEN Push(PopFrame(PopFrame(f)), Unknown)
    ELSE IF o.op = "I32Const" THEN Push(f, Known(o.arg))
    ELSE IF o.op \in NonI32ConstOps THEN Push(f, Unknown)
    ELSE IF o.op = "GlobalGet" THEN Push(f, GlobalValue(globals, o.arg))
    ELSE IF o.op = "LocalGet" THEN Push(f, GetLocal(f, o.arg))
    ELSE IF o.op = "LocalSet" THEN SetLocal(PopFrame(f), o.arg, PopValue(f))
    ELSE IF o.op = "LocalTee" THEN SetLocal(f, o.arg, Peek(f, 0))
    ELSE IF o.op = "I32Add"
        THEN LET b  == PopValue(f)
                 f1 == PopFrame(f)
                 a  == PopValue(f1)
             IN  Push(PopFrame(f1), AddValues(a, b))
    ELSE IF o.op \in {"I32Sub", "I32Mul", "I32DivS", "I32DivU"}
        THEN Push(PopFrame(PopFrame(f)), Unknown)
    ELSE IF o.op \in CallOps THEN Push(f, Unknown)
    ELSE IF o.op = "Drop" THEN PopFrame(f)
    ELSE IF o.op = "Select"
        THEN LET f1 == PopFrame(f)
                 v2 == PopValue(f1)
                 f2 == PopFrame(f1)
                 v1 == PopValue(f2)
             IN  Push(PopFrame(f2), IF v1 = v2 THEN v1 ELSE Unknown)
    ELSE f

\* the loop of scan_function_deterministic from operator k on
RECURSIVE DeterministicBody(_, _, _, _, _, _)
DeterministicBody(ops, k, f, globals, map, env) ==
    IF k > Len(ops) THEN [ok |-> TRUE, env |-> env]
    ELSE IF ops[k].op = "Malformed" THEN [ok |-> FALSE, env |-> env]
    ELSE IF ops[k].op = "Return" THEN [ok |-> TRUE, env |-> env]
    ELSE DeterministicBody(ops, k + 1, DeterministicFrame(f, ops[k], globals),
                           globals, map,
                           IF ops[k].op \in CallOps
                               THEN env \cup CandidateCallCandidates(f, map)
                               ELSE env)

scan_function_deterministic(body, globals, map, env) ==
    IF ~body.locals_ok THEN [ok |-> FALSE, env |-> env]
    ELSE DeterministicBody(body.ops, 1, NewFrame, globals, map, env)

\* the second pass of scan_for_env_vars from payload k on
RECURSIVE DeterministicPass(_, _, _, _, _)
DeterministicPass(m, k, globals, map, env) ==
    IF k > Len(m) THEN [ok |-> TRUE, env |-> env]
    ELSE IF m[k].kind # "CodeSectionEntry"
        THEN DeterministicPass(m, k + 1, globals, map, env)
    ELSE LET r == scan_function_deterministic(m[k], globals, map, env)
         IN  IF r.ok THEN DeterministicPass(m, k + 1, globals, map, r.env)
                     ELSE r

\* scan_for_env_vars when its build_memory_map does not panic.  Its first
\* pass, extract_const_i32, extract_const_offset and build_memory_map are
\* the library's, line for line.
scan_for_env_vars(m) ==
    LET c == FirstPass(m, 1, <<>>, <<>>)
    IN  IF ~c.ok THEN [ok |-> FALSE, env |-> {}]
        ELSE DeterministicPass(m, 1, c.globals, build_memory_map(c.segments), {})

\* whether the build_memory_map of scan_for_env_vars is reached and overflows
ScanOverflows(m) ==
    LET c == FirstPass(m, 1, <<>>, <<>>)
    IN  c.ok /\ BuildOverflows(c.segments)

\* the names main reports for the file: scan_for_env_vars, then `sorted.sort()`
ScanForEnvVars ==
    /\ phase = "cli"
    /\ \/ /\ LET r == scan_for_env_vars(module)
             IN  result' = IF r.ok
                     THEN OkResult(sort(CHOOSE v \in Orderings(r.env) : TRUE))
                     ELSE ErrResult
          /\ phase' = "cli_done"
       \/ /\ ScanOverflows(module)
          /\ phase' = "panic"
          /\ UNCHANGED result
    /\ UNCHANGED <<module, pi, data_segments, global_values, memory_map,
                   env_vars, frame, ip, workers, cls_input, cls_verdict>>

\* "PASSWORD" and "my_ports", stored back to back above both pointer floors
WordsHigh ==
    Layout(<<80, 65, 83, 83, 87, 79, 82, 68>>,
           <<109, 121, 95, 112, 111, 114, 116, 115>>, 2 * PtrFloor)

\* Command-line family: one function, every body of at most MaxOps operators
\* over the constants of a layout, addition and call.
CommandLineModule(m) ==
    \E l \in {NamesHigh, NamesAtFloor, WordsHigh} :
        \E b \in SeqsUpTo(PointerOps(l), MaxOps) :
            m = <<LayoutSection(l), CodeSectionEntry(TRUE, b)>>

InitCommandLine ==
    /\ \/ CommandLineModule(module)
       \/ MultiModule(module)
       \/ SegmentModule(module)
       \/ FramingModule(module)
    /\ phase = "cli"
    /\ pi = 1
    /\ data_segments = <<>>
    /\ global_values = <<>>
    /\ memory_map = EmptyMap
    /\ env_vars = {}
    /\ frame = NewFrame
    /\ ip = 0
    /\ result = NoResult
    /\ workers = <<>>
    /\ cls_input = <<>>
    /\ cls_verdict = "none"

SpecCommandLine == InitCommandLine /\ [][ScanForEnvVars]_vars

-----------------------------------------------------------------------------
(* Definitions the properties are stated with *)

Range(v) == {v[i] : i \in DOMAIN v}

\* The classifier's rules as a declaration: the reject rules ...
PassesRejectRules(s) ==
    LET letters == {i \in DOMAIN s : IsUpperByte(s[i]) \/ IsLowerByte(s[i])}
    IN  /\ Len(s) >= MinNameLen /\ Len(s) <= MaxNameLen
        /\ \A i \in DOMAIN s : \/ IsUpperByte(s[i]) \/ IsLowerByte(s[i])
                               \/ IsDigitByte(s[i]) \/ IsUnderscore(s[i])
        /\ s[1] # 95 /\ s[Len(s)] # 95
        /\ Cardinality(letters) >= MinLetters
        /\ 2 * Cardinality(letters) >= Len(s)
        /\ s \notin NoiseTokens
        /\ \A m \in StdlibMarkers : ~Contains(s, m)

\* ... and the two acceptance patterns
Accepted(s) ==
    /\ PassesRejectRules(s)
    /\ \E i \in DOMAIN s : s[i] = 95
    /\ \/ \A i \in DOMAIN s : \/ IsUpperByte(s[i]) \/ IsDigitByte(s[i])
                              \/ IsUnderscore(s[i])
       \/ \E k \in KeywordFragments : Contains(to_uppercase(s), k)

\* no decode error of the section framing or of a section's entries
FramingValid(m) ==
    \A k \in DOMAIN m :
        /\ m[k].kind # "Err"
        /\ \A j \in DOMAIN m[k].entries : m[k].entries[j].kind # "Malformed"

\* an expression that is exactly one constant 32-bit integer instruction
IsSingleI32Const(expr) ==
    /\ Len(expr) \in {1, 2}
    /\ expr[1].op = "I32Const"
    /\ Len(expr) = 2 => expr[2].op = "End"

\* the entries of every section of one kind, in module order
RECURSIVE EntriesOf(_, _, _)
EntriesOf(m, kind, k) ==
    IF k > Len(m) THEN <<>>
    ELSE (IF m[k].kind = kind THEN m[k].entries ELSE <<>>)
         \o EntriesOf(m, kind, k + 1)

DeclaredGlobals(m) == EntriesOf(m, "GlobalSection", 1)
DeclaredData(m) == EntriesOf(m, "DataSection", 1)

\* the bytes the image holds at [p, p + n), a string of that length
ImageBytes(map, p, n) == [k \in 1..n |-> map[U32AddWrapped(p, k - 1)]]
ImageCovers(map, p, n) ==
    \A k \in 0..(n - 1) : U32AddWrapped(p, k) \in DOMAIN map

\* entry j of the data entries es places n bytes at address p: it is active,
\* its offset expression is one constant o, its data covers [p, p + n), and
\* no later active entry with a constant offset writes into that range
SegmentCovers(es, j, p, n) ==
    LET e == es[j]
        o == e.expr[1].arg
    IN  /\ e.kind = "Active" /\ IsSingleI32Const(e.expr)
        /\ o > 0 /\ p >= o /\ n > 0 /\ p - o + n <= Len(e.data)
        /\ \A i \in (j + 1)..Len(es) :
               ~(/\ es[i].kind = "Active" /\ IsSingleI32Const(es[i].expr)
                 /\ es[i].expr[1].arg < p + n
                 /\ es[i].expr[1].arg + Len(es[i].data) > p)

\* the strings of length n that the module's data segments place at p
PlacedStrings(m, p, n) ==
    LET es == DeclaredData(m)
    IN  {SubSeq(es[j].data, p - es[j].expr[1].arg + 1,
                p - es[j].expr[1].arg + n) :
            j \in {i \in DOMAIN es : SegmentCovers(es, i, p, n)}}

\* the names the analysis of body k alone finds, given what the first pass built
NamesOfBody(m, k) ==
    analyze_function(m[k], global_values, memory_map, {}).env

-----------------------------------------------------------------------------
(* Properties *)

\* C1: for every accepted string s that an active data segment places at a
\* constant address p above the pointer floor, a function body whose
\* operators are `i32.const p; i32.const len(s); call` makes the scan return
\* a sequence that contains s, and exactly [s] when it is the only function.
C1_LiteralPointerDetected ==
    (phase = "done" /\ FramingValid(module)) =>
        \A k \in CodeIndices(module) :
            LET b == module[k].ops
            IN  (/\ module[k].locals_ok
                 /\ Len(b) = 3
                 /\ b[1].op = "I32Const" /\ b[2].op = "I32Const"
                 /\ b[3].op = "Call"
                 /\ b[1].arg > PtrFloor)
                => \A s \in PlacedStrings(module, b[1].arg, b[2].arg) :
                       Accepted(s) =>
                           /\ result.status = "Ok"
                           /\ s \in Range(result.vars)
                           /\ (CodeIndices(module) = {k}
                                   => result.vars = <<s>>)

\* C2: a pointer computed by i32.add of two constants a and b is detected
\* like a literal one: when the wrapping sum of a and b is the address p of
\* an accepted string s, the body `i32.const a; i32.const b; i32.add;
\* i32.const len(s); call` makes the scan return s.
C2_AddedPointerDetected ==
    (phase = "done" /\ FramingValid(module)) =>
        \A k \in CodeIndices(module) :
            LET b == module[k].ops
                p == wrapping_add(b[1].arg, b[2].arg)
            IN  (/\ module[k].locals_ok
                 /\ Len(b) = 5
                 /\ b[1].op = "I32Const" /\ b[2].op = "I32Const"
                 /\ b[3].op = "I32Add" /\ b[4].op = "I32Const"
                 /\ b[5].op = "Call"
                 /\ p > PtrFloor)
                => \A s \in PlacedStrings(module, p, b[4].arg) :
                       Accepted(s) =>
                           /\ result.status = "Ok"
                           /\ s \in Range(result.vars)

\* C3: a function body that fails to decode is skipped: the scan of a module
\* whose framing is valid returns Ok, with the names found in every function
\* body that decodes.
C3_MalformedFunctionSkipped ==
    (phase = "done" /\ FramingValid(module)) =>
        /\ result.status = "Ok"
        /\ \A k \in CodeIndices(module) :
               analyze_function(module[k], global_values, memory_map, {}).ok
                   => NamesOfBody(module, k) \subseteq Range(result.vars)

\* C4: global.get i pushes Known(v) exactly when the i-th declared global has
\* the constant 32-bit initializer v, and Unknown otherwise, whatever the
\* globals at lower indices are.  Stated for modules in which every
\* initializer is a single constant instruction, of 32 or of 64 bits.
C4_GlobalReadByDeclaredIndex ==
    (/\ phase = "function" /\ ip >= 1
     /\ Body[ip].op = "GlobalGet"
     /\ \A j \in DOMAIN DeclaredGlobals(module) :
            /\ DeclaredGlobals(module)[j].kind = "Global"
            /\ Len(DeclaredGlobals(module)[j].expr) = 2)
    => LET g == DeclaredGlobals(module)
           i == Body[ip].arg + 1
       IN  Peek(frame, 0) =
               IF i \in DOMAIN g /\ IsSingleI32Const(g[i].expr)
                   THEN Known(g[i].expr[1].arg)
                   ELSE Unknown

\* C5: every string of the result was read at a call or call_indirect from
\* the memory image at (pointer, length), where the slot below the top of the
\* stack was Known(pointer) and the top was Known(length), the pointer above
\* the floor, the length inside the call-site window, and the string
\* accepted by the classifier; so a module without a call instruction, or
\* whose data holds denylist tokens only, yields the empty sequence.
C5_InsertionJustified ==
    env_vars' # env_vars =>
        /\ phase = "function" /\ ip < Len(Body)
        /\ NextOp.op \in {"Call", "CallIndirect"}
        /\ Len(frame.stack) >= 2
        /\ LET ptr == frame.stack[Len(frame.stack) - 1]
               len == frame.stack[Len(frame.stack)]
           IN  /\ ptr.known /\ len.known
               /\ ptr.v > PtrFloor
               /\ len.v >= MinCallLen /\ len.v <= MaxCallLen
               /\ ImageCovers(memory_map, ptr.v, len.v)
               /\ Accepted(ImageBytes(memory_map, ptr.v, len.v))
               /\ env_vars' = env_vars \cup {ImageBytes(memory_map, ptr.v, len.v)}

C5_ResultFromCalls ==
    /\ Range(result.vars) \subseteq env_vars
    /\ (\A k \in CodeIndices(module) :
            \A j \in DOMAIN module[k].ops : module[k].ops[j].op \notin CallOps)
           => env_vars = {}
    /\ (\A j \in DOMAIN DeclaredData(module) :
            DeclaredData(module)[j].data = LayoutData(NoiseHigh))
           => env_vars = {}

C5_OnlyCallSiteStrings ==
    [](C5_ResultFromCalls) /\ [][C5_InsertionJustified]_vars

C5_Witness ==
    /\ phase = "function" /\ ip >= 1
    /\ Body[ip].op = "Call"
    /\ env_vars = {DATABASE_URL}

\* C6: the returned sequence is strictly ascending in the lexicographic order
\* of the strings: sorted, and no string twice.
C6_ResultStrictlyAscending ==
    (phase = "done" /\ result.status = "Ok") =>
        \A i, j \in DOMAIN result.vars :
            i < j => StrLess(result.vars[i], result.vars[j])

C6_Witness ==
    /\ phase = "done"
    /\ result = OkResult(<<API_BASE_URL, DATABASE_URL>>)

\* C7: in whatever order the function bodies are analysed, interleaved or
\* not, and in whatever order the set yields its elements, the scan returns
\* what the scan in program order returns.
C7_OrderIndependent ==
    phase = "done" => result = scan_wasm_bytes(module)

C7_Witness ==
    /\ phase = "done" /\ Len(result.vars) = 2
    /\ \E j, k \in DOMAIN workers :
           /\ j < k
           /\ module[j].ops[1].arg = LoAddr(NamesHigh)
           /\ module[k].ops[1].arg = HiAddr(NamesHigh)

\* C8: a global initializer or the offset expression of an active data
\* segment is used only if it is exactly one constant 32-bit integer
\* instruction: after the first pass, the collected globals and segments are
\* those of the expressions of that form, and no others.
C8_OnlySingleConstUsed ==
    (phase \in {"analyze", "function", "sort", "done"} /\ result.status # "Err") =>
        /\ Len(global_values) =
               Cardinality({j \in DOMAIN DeclaredGlobals(module) :
                               IsSingleI32Const(DeclaredGlobals(module)[j].expr)})
        /\ Len(data_segments) =
               Cardinality({j \in DOMAIN DeclaredData(module) :
                               /\ DeclaredData(module)[j].kind = "Active"
                               /\ IsSingleI32Const(DeclaredData(module)[j].expr)})

\* C9: when the section framing is invalid, the scan returns an error and no
\* list of candidates, not even a partial one, and it does not panic.
C9_InvalidFramingIsError ==
    ~FramingValid(module) =>
        /\ phase # "panic"
        /\ result.status # "Ok" /\ result.vars = <<>>
        /\ phase \notin {"analyze", "function", "sort"}
        /\ phase = "done" => result.status = "Err"

C9_Witness ==
    /\ ~FramingValid(module)
    /\ phase = "done" /\ result.status = "Err"
    /\ data_segments # <<>>

\* C10: the classifier accepts a string if and only if it passes the length,
\* character-set, structural and denylist rules, contains an underscore, and
\* either consists of uppercase letters, digits and underscores only or
\* contains a keyword fragment when upper-cased; no string without an
\* underscore is accepted.
C10_ClassifierAcceptsIff ==
    cls_verdict # "none" =>
        /\ (cls_verdict = "accept") <=> Accepted(cls_input)
        /\ (\A i \in DOMAIN cls_input : cls_input[i] # 95)
               => cls_verdict = "reject"

C10_Witness ==
    /\ cls_verdict = "accept"
    /\ \E i \in DOMAIN cls_input : IsLowerByte(cls_input[i])

\* some length, character-set or structural rule rejects s
BreaksStructuralRule(s) ==
    LET letters == {i \in DOMAIN s : IsUpperByte(s[i]) \/ IsLowerByte(s[i])}
    IN  \/ Len(s) < MinNameLen
        \/ Len(s) > MaxNameLen
        \/ \E i \in DOMAIN s : ~(\/ IsUpperByte(s[i]) \/ IsLowerByte(s[i])
                                 \/ IsDigitByte(s[i]) \/ IsUnderscore(s[i]))
        \/ s[1] = 95
        \/ s[Len(s)] = 95
        \/ Cardinality(letters) < MinLetters
        \/ 2 * Cardinality(letters) < Len(s)

\* s has the shape of acceptance pattern A or B
HasAcceptedShape(s) ==
    /\ \E i \in DOMAIN s : s[i] = 95
    /\ \/ \A i \in DOMAIN s : ~IsLowerByte(s[i])
       \/ \E k \in KeywordFragments : Contains(to_uppercase(s), k)

\* C11: the classifier rejects every string that is shorter than 4 or longer
\* than 100 characters, holds a character other than an ASCII letter, digit
\* or underscore, starts or ends with an underscore, has fewer than 4
\* letters, or whose letters are less than half of its length, also when the
\* string has the shape of acceptance pattern A or B.
C11_StructuralRejects ==
    (cls_verdict # "none" /\ BreaksStructuralRule(cls_input))
        => cls_verdict = "reject"

C11_Witness ==
    /\ cls_verdict = "reject"
    /\ Len(cls_input) >= MinNameLen
    /\ BreaksStructuralRule(cls_input)
    /\ HasAcceptedShape(cls_input)

\* s equals a denylist token or contains a runtime marker, letter case ignored
OnDenylistIgnoringCase(s) ==
    \/ to_uppercase(s) \in NoiseTokens
    \/ \E m \in StdlibMarkers : Contains(to_uppercase(s), m)

\* C12: the classifier rejects every string that equals a denylist token or
\* contains a runtime marker (RUST_, BACKTRACE), compared without regard to
\* letter case, also when the string has an underscore and a keyword fragment
\* or the all-uppercase shape.
C12_DenylistIgnoresCase ==
    (cls_verdict # "none" /\ OnDenylistIgnoringCase(cls_input))
        => cls_verdict = "reject"


\* C13: after every call or call_indirect, whether or not a candidate was
\* recorded, the operand stack is exactly one slot holding Unknown; and a
\* call finds a pointer and a length only when at least two operators were
\* read since the previous call of the same body.
C13_StackAfterCall ==
    phase = "function" =>
        /\ (ip >= 1 /\ Body[ip].op \in CallOps) => frame.stack = <<Unknown>>
        /\ (/\ ip < Len(Body) /\ NextOp.op \in CallOps
            /\ CallGuard(Peek(frame, 1), Peek(frame, 0)))
           => \A c \in 1..ip : Body[c].op \in CallOps => ip - c >= 2

\* a second call of one body has been reached after a first one that
\* recorded a name, with operators read in between
C13_Witness ==
    /\ phase = "function" /\ ip >= 3
    /\ Body[ip].op \in CallOps
    /\ \E c \in 1..(ip - 2) : Body[c].op \in CallOps
    /\ env_vars # {}
    /\ frame.stack = <<Unknown>>


\* the binary arithmetic, comparison and bitwise integer operators other than
\* 32-bit addition, and the memory loads of every width and result type
BinaryIntegerOps == BinaryUnknownOps \cup UnlistedBinaryOps
MemoryLoadOps == LoadOps \cup UnlistedLoadOps

\* C14: every binary arithmetic, comparison or bitwise integer operator other
\* than 32-bit addition pops both operands and pushes Unknown: the depth of a
\* stack of two or more slots drops by one, the top slot is Unknown, and a
\* call directly after the operator records no candidate.
C14_BinaryOpsPushUnknown ==
    phase = "function" =>
        /\ (ip >= 1 /\ Body[ip].op \in BinaryIntegerOps)
           => /\ Peek(frame, 0) = Unknown
              /\ CallCandidates(frame, memory_map) = {}
        /\ (/\ ip < Len(Body) /\ NextOp.op \in BinaryIntegerOps
            /\ Len(frame.stack) >= 2)
           => Len(ExecFrame(frame, NextOp, global_values).stack)
                  = Len(frame.stack) - 1

\* C15: a memory load of any width or result type pops the address and
\* pushes Unknown: after every load the top slot is Unknown, the depth of a
\* stack that held the address is unchanged, and neither the loaded value nor
\* its address serves as pointer or length of a following call.
C15_LoadsPushUnknown ==
    phase = "function" =>
        /\ (ip >= 1 /\ Body[ip].op \in MemoryLoadOps)
           => /\ Peek(frame, 0) = Unknown
              /\ CallCandidates(frame, memory_map) = {}
        /\ (/\ ip < Len(Body) /\ NextOp.op \in MemoryLoadOps
            /\ Len(frame.stack) >= 1)
           => Len(ExecFrame(frame, NextOp, global_values).stack)
                  = Len(frame.stack)

\* C16: building the memory image never aborts the scan, whatever the
\* constant offsets and lengths of the active segments are.
C16_MemoryBuildNeverPanics ==
    phase # "panic"


\* x + y modulo 2^32 read as a signed 32-bit value, computed on 16-bit halves
WrappedSum(x, y) ==
    LET lo == (x % 65536) + (y % 65536)
        hi == (x \div 65536) + (y \div 65536) + (lo \div 65536)
    IN  (((hi + 32768) % 65536) - 32768) * 65536 + (lo % 65536)

\* the step that reads the next operator of the body, when it is one of ops
ReadsOperatorIn(ops) ==
    /\ phase = "function" /\ ip < Len(Body)
    /\ NextOp.op \in ops
    /\ ip' = ip + 1

\* the stack after 32-bit addition: both operands popped, Known of the
\* wrapped sum pushed when both were Known, Unknown otherwise
C17_AdditionStep ==
    ReadsOperatorIn({"I32Add"}) =>
        LET n == Len(frame.stack)
            b == IF n >= 1 THEN frame.stack[n] ELSE Unknown
            a == IF n >= 2 THEN frame.stack[n - 1] ELSE Unknown
        IN  frame'.stack =
                SubSeq(frame.stack, 1, n - 2)
                \o << IF a.known /\ b.known
                         THEN Known(WrappedSum(a.v, b.v))
                         ELSE Unknown >>

\* a call whose pointer slot holds a negative or low value extracts nothing
C17_FloorOnWrappedValue ==
    (/\ ReadsOperatorIn(CallOps)
     /\ Peek(frame, 1).known /\ Peek(frame, 1).v <= PtrFloor)
    => env_vars' = env_vars

\* C17: 32-bit addition pushes Known of the wrapping sum (x + y modulo 2^32
\* as a signed 32-bit value) when both popped operands are Known, and Unknown
\* when one is Unknown or missing; the pointer floor at a call applies to the
\* wrapped value, so a sum that wraps to a negative or low value is not
\* extracted.
C17_WrappingAddition ==
    [][C17_AdditionStep /\ C17_FloorOnWrappedValue]_vars

\* MaxI32 + 13 has wrapped to the address of a name in the upper half of the
\* address space, and the call after it recorded nothing
C17_Witness ==
    /\ phase = "function" /\ ip = 5
    /\ module[1] = LayoutSection(NamesUpperHalf)
    /\ Body[1] = I32Const(MaxI32) /\ Body[2] = I32Const(StrLen(NamesHigh) + 1)
    /\ Body[3].op = "I32Add" /\ Body[5].op = "Call"
    /\ env_vars = {}


\* the module with its data and global sections moved in front of every
\* other payload, or behind them, each group in its order
IsCollectedSection(x) == x.kind \in {"DataSection", "GlobalSection"}
IsOtherPayload(x) == ~IsCollectedSection(x)
SectionsFirst(m) == SelectSeq(m, IsCollectedSection) \o SelectSeq(m, IsOtherPayload)
SectionsLast(m) == SelectSeq(m, IsOtherPayload) \o SelectSeq(m, IsCollectedSection)

\* C18: every function body is interpreted against the complete memory
\* image and global table: while a body is analysed, every byte of every
\* active segment with a constant offset is in the image and the value of
\* every global with a constant initializer is in the table, wherever the
\* data and global sections stand in the module; and the result is that of
\* the module with those sections moved before or after the code.
C18_ImageCompleteBeforeCode ==
    /\ phase = "function" =>
          LET ds == DeclaredData(module)
              gs == DeclaredGlobals(module)
          IN  /\ \A j \in DOMAIN ds :
                     (ds[j].kind = "Active" /\ IsSingleI32Const(ds[j].expr))
                     => \A i \in 1..Len(ds[j].data) :
                            U32AddWrapped(ds[j].expr[1].arg, i - 1)
                                \in DOMAIN memory_map
              /\ \A j \in DOMAIN gs :
                     IsSingleI32Const(gs[j].expr)
                     => gs[j].expr[1].arg \in Range(global_values)
    /\ (phase = "done" /\ FramingValid(module)) =>
          /\ result = scan_wasm_bytes(SectionsFirst(module))
          /\ result = scan_wasm_bytes(SectionsLast(module))

\* a name was recorded from a data section that stands after the code
C18_Witness ==
    /\ phase = "done" /\ result.status = "Ok" /\ result.vars # <<>>
    /\ Len(module) >= 3
    /\ module[2].kind = "CodeSectionEntry"
    /\ module[Len(module)].kind = "DataSection"


\* the frame that the first k operators of a body leave when they are
\* interpreted from a new frame
RECURSIVE FrameAfter(_, _, _)
FrameAfter(ops, k, globals) ==
    IF k = 0 THEN NewFrame
    ELSE ExecFrame(FrameAfter(ops, k - 1, globals), ops[k], globals)

\* C19: every function body starts from a new frame, with an empty operand
\* stack and every local Unknown, whatever earlier bodies pushed or stored:
\* the frame depends on the operators of the current body alone, and a call
\* finds a pointer and a length only among values of its own body.
C19_FreshFramePerFunction ==
    phase = "function" =>
        /\ ip = 0 => (frame.stack = <<>> /\ DOMAIN frame.locals = {})
        /\ frame = FrameAfter(Body, ip, global_values)
        /\ (/\ ip < Len(Body) /\ NextOp.op \in CallOps
            /\ CallGuard(Peek(frame, 1), Peek(frame, 0)))
           => \E j \in 1..ip : Body[j].op \in {"I32Const", "GlobalGet"}

\* a body reads local 0 and calls, after an earlier body stored the pointer
\* in its own local 0: nothing is recorded
C19_Witness ==
    /\ phase = "function" /\ pi >= 2 /\ ip = 3
    /\ module[pi - 1].kind = "CodeSectionEntry"
    /\ module[pi - 1].ops = <<I32Const(HiAddr(NamesHigh)), LocalSet(0)>>
    /\ Body = <<LocalGet(0), I32Const(StrLen(NamesHigh)), Call>>
    /\ env_vars = {}


\* no return among the operators of the current body read so far
NoReturnRead == \A j \in 1..ip : Body[j].op # "Return"

\* a step that adds a name reads an operator of a body in which no return
\* stands before that operator
C20_InsertionBeforeReturn ==
    env_vars' # env_vars =>
        /\ phase = "function" /\ ip < Len(Body)
        /\ \A j \in 1..(ip + 1) : Body[j].op # "Return"

\* C20: once an unconditional return is read, no later operator of that
\* function body is examined: the reader never stands behind a return, and a
\* call after the first return of the operator stream adds no string to the
\* result, also when the return is inside a block, a loop or an if.
C20_ReturnStopsBody ==
    [](phase = "function" => NoReturnRead) /\ [][C20_InsertionBeforeReturn]_vars

\* the analysis of a body has ended at a return inside an if, with a call on
\* a name after it, and nothing was recorded
C20_Witness ==
    /\ phase = "analyze" /\ pi = 3 /\ ip = 2
    /\ module[2].kind = "CodeSectionEntry"
    /\ Len(module[2].ops) = 7
    /\ module[2].ops[2].op = "If" /\ module[2].ops[3].op = "Return"
    /\ module[2].ops[7].op = "Call"
    /\ env_vars = {}


\* some address of [p, p + n) is in the image and some other is not
PartlyInImage(map, p, n) ==
    /\ \E k \in 0..(n - 1) : U32AddWrapped(p, k) \in DOMAIN map
    /\ \E k \in 0..(n - 1) : U32AddWrapped(p, k) \notin DOMAIN map

\* a call whose (pointer, length) passes the guards while an address of the
\* range is absent records nothing, and the analysis of the body goes on
C21_AbsentAddressStep ==
    (/\ ReadsOperatorIn(CallOps)
     /\ CallGuard(Peek(frame, 1), Peek(frame, 0))
     /\ ~ImageCovers(memory_map, Peek(frame, 1).v, Peek(frame, 0).v))
    => /\ env_vars' = env_vars
       /\ phase' = "function" /\ result' = result

\* C21: string extraction rejects a (pointer, length) pair when any single
\* address of [pointer, pointer + length) is absent from the memory image,
\* also when the rest of the range is present: nothing is recorded for that
\* call, and the scan goes on without error.
C21_AbsentAddressRejects ==
    [][C21_AbsentAddressStep]_vars

\* the scan has returned the one name that is whole in the image, after a
\* call on a range with one byte missing in its middle
C21_Witness ==
    /\ phase = "done" /\ result = OkResult(<<API_BASE_URL>>)
    /\ \E k \in 2..(StrLen(NamesHigh) - 1) : module[1] = DataSection(HoleEntries(k))
    /\ PartlyInImage(memory_map, HiAddr(NamesHigh), StrLen(NamesHigh))
    /\ \E j \in CodeIndices(module) : module[j].ops[1] = I32Const(HiAddr(NamesHigh))


\* the segments of segs that cover address a, by their index
CoveringSegments(segs, a) ==
    {j \in DOMAIN segs : a - segs[j].offset \in 0..(Len(segs[j].data) - 1)}

\* the greatest element of a non-empty set of indices
Last(S) == CHOOSE j \in S : \A i \in S : i <= j

\* C22: when active data segments overlap, the memory image holds at every
\* address the byte of the last segment, in data-section order, that covers
\* the address; an address that no segment covers is absent from the image.
C22_LastSegmentWins ==
    phase \in {"analyze", "function", "sort", "done"} /\ result.status # "Err" =>
        /\ \A a \in DOMAIN memory_map :
               /\ CoveringSegments(data_segments, a) # {}
               /\ LET seg == data_segments[Last(CoveringSegments(data_segments, a))]
                  IN  memory_map[a] = seg.data[a - seg.offset + 1]
        /\ \A j \in DOMAIN data_segments :
               \A i \in 0..(Len(data_segments[j].data) - 1) :
                   U32AddWrapped(data_segments[j].offset, i) \in DOMAIN memory_map

\* two segments with different bytes overlap, and the name the later one
\* wrote over the earlier one's bytes has been returned
C22_Witness ==
    /\ phase = "done" /\ result = OkResult(<<API_BASE_URL>>)
    /\ Len(data_segments) = 2
    /\ data_segments[1].data = LayoutData(NamesHigh)
    /\ data_segments[2] = [offset |-> HiAddr(NamesHigh), data |-> API_BASE_URL]


\* slot number d of a stack from its top (0 is the top), Unknown when the
\* stack has no such slot
SlotFromTop(stack, d) ==
    IF Len(stack) > d THEN stack[Len(stack) - d] ELSE Unknown

\* select pops the condition and the two candidates and pushes the common
\* value of the candidates, or Unknown when they differ
C23_SelectStep ==
    ReadsOperatorIn({"Select"}) =>
        LET n == Len(frame.stack)
            b == SlotFromTop(frame.stack, 1)
            a == SlotFromTop(frame.stack, 2)
            common == IF a.known /\ b.known /\ a.v = b.v THEN a ELSE Unknown
        IN  /\ frame'.stack = SubSeq(frame.stack, 1, n - 3) \o <<common>>
            /\ n >= 3 => Len(frame'.stack) = n - 2
            /\ frame'.locals = frame.locals

\* C23: select pops the condition and then two candidate values, and pushes
\* the common value when the candidates are equal (the same Known integer, or
\* both Unknown) and Unknown otherwise; on a stack of three or more slots its
\* net effect on the depth is minus two.
C23_SelectCommonValue ==
    [][C23_SelectStep]_vars

\* select over twice the same pointer left that pointer, and the call after
\* it recorded the name
C23_Witness ==
    /\ phase = "function" /\ ip = Len(Body) /\ ip >= 6
    /\ Body[ip - 2].op = "Select"
    /\ Body[ip - 4] = Body[ip - 5] /\ Body[ip - 4].op = "I32Const"
    /\ env_vars = {DATABASE_URL}


\* C24: the analysis of a function body reads each operator at most once
\* and ends, and the scan of a module whose framing is valid ends after it
\* has visited each function body exactly once: when the scan has returned,
\* the second pass has gone through every function body of the module.
C24_EachBodyVisitedOnce ==
    (phase = "done" /\ FramingValid(module)) =>
        \A k \in CodeIndices(module) : k <= pi


LocalWriteOps == {"LocalSet", "LocalTee"}

\* the value local i holds (Unknown when it holds none)
LocalValue(locals, i) == IF i \in DOMAIN locals THEN locals[i] ELSE Unknown

\* the locals hold values at the indices written in this body so far
C25_StoredIndices ==
    phase = "function" =>
        DOMAIN frame.locals =
            {Body[j].arg : j \in {h \in 1..ip : Body[h].op \in LocalWriteOps}}

\* a local read pushes the local's value; a local write pops the top slot
\* into the local and a tee copies it there, leaving every other local; any
\* other operator, a call among them, leaves the locals as they are
C25_LocalsStep ==
    /\ ReadsOperatorIn({"LocalGet"}) =>
           /\ frame'.stack =
                  Append(frame.stack, LocalValue(frame.locals, NextOp.arg))
           /\ frame'.locals = frame.locals
    /\ ReadsOperatorIn(LocalWriteOps) =>
           /\ LocalValue(frame'.locals, NextOp.arg) = SlotFromTop(frame.stack, 0)
           /\ \A i \in DOMAIN frame.locals :
                  i # NextOp.arg => LocalValue(frame'.locals, i) = frame.locals[i]
           /\ frame'.stack =
                  IF NextOp.op = "LocalSet"
                      THEN SubSeq(frame.stack, 1, Len(frame.stack) - 1)
                      ELSE frame.stack
    /\ (phase = "function" /\ phase' = "function" /\ ip' = ip + 1
        /\ NextOp.op \notin LocalWriteOps)
       => frame'.locals = frame.locals

\* C25: within one function body a local read at index i pushes the value
\* most recently stored at i by a local write or tee, or Unknown when i was
\* never stored; a call clears the operand stack and leaves the locals, so a
\* pointer saved in a local before a call and read back after it is detected
\* at a later call.
C25_LocalsKeepValues ==
    [](C25_StoredIndices) /\ [][C25_LocalsStep]_vars

\* a pointer was stored in local 0, a call followed, and the call after the
\* local was read back recorded the name
C25_Witness ==
    /\ phase = "function" /\ ip = Len(Body) /\ ip >= 6
    /\ Body[1] = I32Const(HiAddr(NamesHigh)) /\ Body[2] = LocalSet(0)
    /\ \E c \in 3..(ip - 3) : Body[c].op = "Call"
    /\ Body[ip - 2] = LocalGet(0) /\ Body[ip].op = "Call"
    /\ env_vars = {DATABASE_URL}


\* C26: for every module, the set of names that the command-line program's
\* own scanner (scan_for_env_vars in main.rs) reports equals the set of names
\* that scan_wasm_bytes returns for the same bytes.
C26_CommandLineAgreesWithLibrary ==
    phase = "cli_done" =>
        /\ result.status = scan_wasm_bytes(module).status
        /\ Range(result.vars) = Range(scan_wasm_bytes(module).vars)


=============================================================================
